---- MODULE Spec2Model ----
(***************************************************************************)
(* The cell-reference handle Vc<T> of turbo-tasks (vc/mod.rs): cell        *)
(* creation, resolution, dynamic casts, upcast, reads and the debug        *)
(* identifier, over the RawVc locator and the scheduler it talks to.       *)
(* Every task is one execution; the code of a task body issues the Vc      *)
(* operations one after the other, awaiting each.                          *)
(***************************************************************************)
EXTENDS Integers, Sequences, FiniteSets, TLC

\* ------------------------------------------------------------- bounds
NumTasks == 2
MaxCells == 2
MaxLocals == 2

\* Task 0 is the root execution (a run_once closure, no function metadata);
\* the others are the tasks of #[turbo_tasks::function]s.
Root == 0
Functions == 1..NumTasks
Tasks == {Root} \cup Functions

\* ------------------------------------------------ the type registry
ValueTypes == {"TA", "TB"}
TraitTypes == {"K", "L"}

\* value type -> the traits it implements (ValueType::has_trait)
HasTrait(ty, tr) == <<ty, tr>> \in {<<"TA", "K">>, <<"TB", "K">>, <<"TB", "L">>}

\* trait L has the supertrait K
Supertrait(sub, super) == <<sub, super>> \in {<<"L", "K">>}

\* registry::get_value_type(type_id).name
ValueTypeName(ty) == IF ty = "TA" THEN "TypeA" ELSE "TypeB"

\* T::CellMode of a value type: VcCellNewMode or VcCellSharedMode
CellModeOf(ty) == IF ty = "TA" THEN "new" ELSE "shared"

\* T: VcValueType<Read = VcTransparentRead<..>>: the types that have Vc::cell
Transparent(ty) == ty = "TB"

\* T: Upcast<K> for a trait K
UpcastOk(T, K) ==
  /\ K \in TraitTypes
  /\ \/ T \in ValueTypes /\ HasTrait(T, K)
     \/ T \in TraitTypes /\ Supertrait(T, K)

\* ------------------------------------------------------- locators
TaskOutput(t) == [kind |-> "TaskOutput", id |-> t, ty |-> "-", index |-> 0]
TaskCell(t, ty, i) == [kind |-> "TaskCell", id |-> t, ty |-> ty, index |-> i]
LocalCell(e, i) == [kind |-> "LocalCell", id |-> e, ty |-> "-", index |-> i]
NoNode == [kind |-> "None", id |-> 0, ty |-> "-", index |-> 0]

\* struct Vc<T> { node: RawVc, _t: PhantomData<T> }
Vc(node, tag) == [node |-> node, tag |-> tag]
NoVc == Vc(NoNode, "-")

\* ---------------------------------------------------------- values
\* A value is its data and the spare capacity of its representation;
\* shrinks counts the shrink_to_fit calls made on it before it is stored.
Data == {7, 42}
Inners == {[data |-> d, slack |-> s, shrinks |-> 0] : d \in Data, s \in {0, 1}}
NoVal == [data |-> 0, slack |-> 0]
NoInner == [data |-> 0, slack |-> 0, shrinks |-> 0]

ShrinkToFit(v) == [v EXCEPT !.slack = 0, !.shrinks = @ + 1]

\* T::Read::target_to_repr(inner): the representation that is stored
target_to_repr(inner) == [data |-> inner.data, slack |-> inner.slack]

\* SharedReference::new(..).into_typed(T::get_value_type_id())
SharedReference(ty, repr) == [ty |-> ty, val |-> repr]

\* -------------------------------------------------------- results
NoErr == [wrap |-> "-", source |-> 0]
\* the fatal failure of task x, as the awaiting operation receives it
TaskFailure(x) == [wrap |-> "anyhow", source |-> x]
\* ResolveTypeError::TaskError { source }
ResolveTypeTaskError(x) == [wrap |-> "TaskError", source |-> x]

NoRes == [st |-> "-", vc |-> NoVc, resolved |-> FALSE, val |-> NoVal, err |-> NoErr, text |-> ""]
OkVc(vc) == [NoRes EXCEPT !.st = "Ok", !.vc = vc]
OkResolvedVc(vc) == [NoRes EXCEPT !.st = "Ok", !.vc = vc, !.resolved = TRUE]
OkNone == [NoRes EXCEPT !.st = "None"]
OkVal(v) == [NoRes EXCEPT !.st = "Ok", !.val = v]
OkText(s) == [NoRes EXCEPT !.st = "Ok", !.text = s]
ErrRes(e) == [NoRes EXCEPT !.st = "Err", !.err = e]
Unreachable == [NoRes EXCEPT !.st = "Unreachable"]

\* ----------------------------------------------------------- state
VARIABLES
  status,   \* task -> "idle" | "running" | "done" | "failed"
  output,   \* task -> the locator the finished task returned
  cells,    \* task -> its task cells, in creation order
  locals,   \* execution -> its local cells, in creation order
  op        \* task -> the Vc operation its body last issued

vars == <<status, output, cells, locals, op>>

NoOp == [kind |-> "-", pc |-> "idle", arg |-> NoVc, k |-> "-", cur |-> NoNode,
         inner |-> NoInner, shrinks |-> 0, mode |-> "-", chained |-> FALSE,
         res |-> NoRes]

Init ==
  /\ status = [t \in Tasks |-> IF t = Root THEN "running" ELSE "idle"]
  /\ output = [t \in Tasks |-> NoNode]
  /\ cells = [t \in Tasks |-> <<>>]
  /\ locals = [t \in Tasks |-> <<>>]
  /\ op = [t \in Tasks |-> NoOp]

\* try_get_function_meta(): None outside a function, else Some(meta) with
\* meta.local_cells set for the functions declared with local_cells
try_get_function_meta(t) ==
  IF t = Root THEN [some |-> FALSE, local_cells |-> FALSE]
  ELSE [some |-> TRUE, local_cells |-> (t % 2 = 1)]

\* the executions whose cell_private takes the global path
GlobalExecs == {t \in Tasks : ~try_get_function_meta(t).local_cells}

\* the declared return type of the function of task t
RetTag(t) == IF t % 2 = 1 THEN "K" ELSE "TA"

\* a handle of tag `from` may be returned where `to` is declared
Compatible(from, to) == from = to \/ UpcastOk(from, to)

CanIssue(t) == status[t] = "running" /\ op[t].pc # "awaiting"

\* the task cells and the local cells there are
ExistingCells ==
  UNION {{TaskCell(x, cells[x][i].ty, cells[x][i].index) : i \in 1..Len(cells[x])} :
           x \in Tasks}

ExistingLocals ==
  UNION {{LocalCell(x, i) : i \in 1..Len(locals[x])} : x \in Tasks}

\* ------------------------------------------------- cell creation
\* number of cells of type ty the task already has: the next CellId index
NextIndex(t, ty) == Cardinality({i \in 1..Len(cells[t]) : cells[t][i].ty = ty})

\* manager::create_local_cell: the next local cell id of the execution
create_local_cell(t, shared) ==
  [locals |-> Append(locals[t], shared),
   execution_id |-> t,
   local_cell_id |-> Len(locals[t]) + 1]

Created(api, ty, inner, shrinks, mode, vc) ==
  [NoOp EXCEPT !.kind = api, !.pc = "done", !.k = ty, !.inner = inner,
               !.shrinks = shrinks, !.mode = mode, !.res = OkVc(vc)]

\* <T::CellMode as VcCellMode<T>>::cell(inner): a slot of the current task,
\* written under the mode the type declares
VcCellMode_cell(t, ty, inner, api, orig) ==
  /\ Cardinality(ExistingCells) < MaxCells
  /\ cells' = [cells EXCEPT ![t] =
       Append(@, [ty |-> ty, index |-> NextIndex(t, ty), val |-> target_to_repr(inner)])]
  /\ op' = [op EXCEPT ![t] =
       Created(api, ty, orig, inner.shrinks, CellModeOf(ty),
               Vc(TaskCell(t, ty, NextIndex(t, ty)), ty))]
  /\ UNCHANGED <<status, output, locals>>

local_cell_private(t, ty, inner, api, orig) ==
  LET shrunk == ShrinkToFit(inner)
      created == create_local_cell(t, SharedReference(ty, target_to_repr(shrunk)))
  IN /\ Cardinality(ExistingLocals) < MaxLocals
     /\ locals' = [locals EXCEPT ![t] = created.locals]
     /\ op' = [op EXCEPT ![t] =
          Created(api, ty, orig, shrunk.shrinks, "none",
                  Vc(LocalCell(created.execution_id, created.local_cell_id), ty))]
     /\ UNCHANGED <<status, output, cells>>

\* a cell_private whose missing function metadata counts as local_cells
cell_private_default_local(t, ty, inner, api, orig) ==
  LET shrunk == ShrinkToFit(inner)
      m == try_get_function_meta(t)
  IN IF (IF m.some THEN m.local_cells ELSE TRUE)
       THEN local_cell_private(t, ty, shrunk, api, orig)
       ELSE VcCellMode_cell(t, ty, shrunk, api, orig)

cell_private(t, ty, inner, api, orig) ==
  LET shrunk == ShrinkToFit(inner)
      m == try_get_function_meta(t)
  IN IF (IF m.some THEN m.local_cells ELSE FALSE)
       THEN local_cell_private(t, ty, shrunk, api, orig)
       ELSE VcCellMode_cell(t, ty, shrunk, api, orig)

cell(t, ty, inner) == cell_private(t, ty, inner, "cell", inner)

local_cell(t, ty, inner) == local_cell_private(t, ty, inner, "local_cell", inner)

CellPrivateOn(Ts, Tys, Ins) ==
  \E t \in Ts, ty \in Tys, inner \in Ins :
    CanIssue(t) /\ cell_private(t, ty, inner, "cell_private", inner)

LocalCellPrivateOn(Ts, Tys, Ins) ==
  \E t \in Ts, ty \in Tys, inner \in Ins :
    CanIssue(t) /\ local_cell_private(t, ty, inner, "local_cell_private", inner)

CellOn(Ts, Tys, Ins) ==
  \E t \in Ts, ty \in Tys, inner \in Ins :
    CanIssue(t) /\ Transparent(ty) /\ cell(t, ty, inner)

LocalCellOn(Ts, Tys, Ins) ==
  \E t \in Ts, ty \in Tys, inner \in Ins :
    CanIssue(t) /\ Transparent(ty) /\ local_cell(t, ty, inner)

\* ------------------------------------------------- task lifecycle
Start ==
  \E t \in Functions :
    /\ status[t] = "idle"
    /\ status' = [status EXCEPT ![t] = "running"]
    /\ UNCHANGED <<output, cells, locals, op>>

\* what a finishing task may return: a cell, or the output of a function it
\* called
Returnable(t) ==
  {c \in ExistingCells : Compatible(c.ty, RetTag(t))}
  \cup {TaskOutput(x) : x \in {y \in Functions : y > t /\ Compatible(RetTag(y), RetTag(t))}}

Finish ==
  \E t \in Functions : \E node \in Returnable(t) :
    /\ CanIssue(t)
    /\ status' = [status EXCEPT ![t] = "done"]
    /\ output' = [output EXCEPT ![t] = node]
    /\ locals' = [locals EXCEPT ![t] = <<>>]
    /\ op' = [op EXCEPT ![t] = NoOp]
    /\ UNCHANGED cells

Fail ==
  \E t \in Functions :
    /\ status[t] = "running"
    /\ status' = [status EXCEPT ![t] = "failed"]
    /\ locals' = [locals EXCEPT ![t] = <<>>]
    /\ op' = [op EXCEPT ![t] = NoOp]
    /\ UNCHANGED <<output, cells>>

\* ------------------------------------------------ RawVc, scheduler
\* read_task_output in the loop of RawVc::resolve*: follow the outputs of
\* the finished tasks
RECURSIVE Follow(_)
Follow(node) ==
  IF node.kind = "TaskOutput" /\ status[node.id] = "done"
    THEN Follow(output[node.id])
    ELSE node

Pending(node) == node.kind = "TaskOutput" /\ status[node.id] \in {"idle", "running"}
Failed(node) == node.kind = "TaskOutput" /\ status[node.id] = "failed"

\* read_task_cell / read_local_cell: the typed content at a settled locator
CellAt(node) ==
  IF node.kind = "LocalCell"
    THEN locals[node.id][node.index]
    ELSE LET i == CHOOSE j \in 1..Len(cells[node.id]) :
                    /\ cells[node.id][j].ty = node.ty
                    /\ cells[node.id][j].index = node.index
         IN [ty |-> cells[node.id][i].ty, val |-> cells[node.id][i].val]

\* (value_type.raw_cell)(shared_reference): the upgrade of a local cell to a
\* cell of the current task
raw_cell(t, shared) ==
  [cells |-> Append(cells[t], [ty |-> shared.ty, index |-> NextIndex(t, shared.ty),
                               val |-> shared.val]),
   node |-> TaskCell(t, shared.ty, NextIndex(t, shared.ty))]

RawPending(n) == [st |-> "Pending", some |-> FALSE, node |-> n, val |-> NoVal, err |-> NoErr]
RawErr(e) == [st |-> "Err", some |-> FALSE, node |-> NoNode, val |-> NoVal, err |-> e]
RawOk(n) == [st |-> "Ok", some |-> TRUE, node |-> n, val |-> NoVal, err |-> NoErr]
RawNone == [st |-> "Ok", some |-> FALSE, node |-> NoNode, val |-> NoVal, err |-> NoErr]
RawVal(v) == [st |-> "Ok", some |-> TRUE, node |-> NoNode, val |-> v, err |-> NoErr]

\* RawVc::resolve: a task cell is returned as it is, a local cell is
\* upgraded, a task output is awaited and followed
RawVc_resolve(t, from) ==
  LET n == Follow(from)
  IN CASE Pending(n) -> [raw |-> RawPending(n), cells |-> cells[t]]
       [] Failed(n) -> [raw |-> RawErr(TaskFailure(n.id)), cells |-> cells[t]]
       [] n.kind = "LocalCell" ->
            LET up == raw_cell(t, CellAt(n))
            IN [raw |-> RawOk(up.node), cells |-> up.cells]
       [] OTHER -> [raw |-> RawOk(n), cells |-> cells[t]]

\* RawVc::resolve_strongly_consistent: the same, the outputs read with
\* strong consistency
RawVc_resolve_strongly_consistent(t, from) == RawVc_resolve(t, from)

\* RawVc::resolve_trait: the settled locator when the value type of the
\* content implements the trait
RawVc_resolve_trait(from, trait) ==
  LET n == Follow(from)
  IN CASE Pending(n) -> RawPending(n)
       [] Failed(n) -> RawErr(ResolveTypeTaskError(n.id))
       [] OTHER -> IF HasTrait(CellAt(n).ty, trait) THEN RawOk(n) ELSE RawNone

\* RawVc::resolve_value: the settled locator when the content is of the
\* value type
RawVc_resolve_value(from, vty) ==
  LET n == Follow(from)
  IN CASE Pending(n) -> RawPending(n)
       [] Failed(n) -> RawErr(ResolveTypeTaskError(n.id))
       [] OTHER -> IF CellAt(n).ty = vty THEN RawOk(n) ELSE RawNone

\* RawVc::into_read: the content of the cell the locator settles on
RawVc_into_read(from) ==
  LET n == Follow(from)
  IN CASE Pending(n) -> RawPending(n)
       [] Failed(n) -> RawErr(TaskFailure(n.id))
       [] OTHER -> RawVal(CellAt(n).val)

RawVc_is_resolved(node) == node.kind = "TaskCell"
RawVc_is_local(node) == node.kind = "LocalCell"

\* ------------------------------------------------------------- Vc
\* equality that looks through pending outputs to the cell behind them
VcEq_through(a, b) == Follow(a.node) = Follow(b.node)

\* impl PartialEq for Vc<T>
VcEq(a, b) == a.node = b.node

\* impl Hash for Vc<T>: what is fed to the hasher
VcHash(a) == a.node

\* impl Clone / Copy for Vc<T>
VcClone(a) == [node |-> a.node, tag |-> a.tag]

is_resolved(vc) == RawVc_is_resolved(vc.node)
is_local(vc) == RawVc_is_local(vc.node)

\* an upcast that resolves what it relabels
upcast_resolving(vc, K) == [node |-> Follow(vc.node), tag |-> K]

\* Vc::upcast
upcast(vc, K) == [node |-> vc.node, tag |-> K]

\* the outcome of one poll of an async operation of task t
Suspended(n, cs) == [pc |-> "awaiting", cur |-> n, res |-> NoRes, cells |-> cs]
Completed(r, cs) == [pc |-> "done", cur |-> NoNode, res |-> r, cells |-> cs]

\* a resolve that reads the task output once instead of resolving it
resolve_one_hop(t, self, from) ==
  LET r == RawVc_resolve(t, from)
  IN CASE Pending(from) -> Suspended(from, cells[t])
       [] Failed(from) -> Completed(ErrRes(TaskFailure(from.id)), cells[t])
       [] from.kind = "TaskOutput" ->
            Completed(OkVc(Vc(output[from.id], self.tag)), cells[t])
       [] OTHER -> Completed(OkVc(Vc(r.raw.node, self.tag)), r.cells)

\* a resolve that copies the content of a task cell into a cell of the
\* resolving task
resolve_recell(t, self, from) ==
  LET n == Follow(from)
      r == RawVc_resolve(t, from)
  IN CASE r.raw.st = "Pending" -> Suspended(r.raw.node, cells[t])
       [] r.raw.st = "Err" -> Completed(ErrRes(r.raw.err), cells[t])
       [] n.kind = "TaskCell" ->
            LET up == raw_cell(t, CellAt(n))
            IN Completed(OkVc(Vc(up.node, self.tag)), up.cells)
       [] OTHER -> Completed(OkVc(Vc(r.raw.node, self.tag)), r.cells)

\* Vc::resolve
resolve(t, self, from) ==
  LET r == RawVc_resolve(t, from)
  IN CASE r.raw.st = "Pending" -> Suspended(r.raw.node, cells[t])
       [] r.raw.st = "Err" -> Completed(ErrRes(r.raw.err), cells[t])
       [] OTHER -> Completed(OkVc(Vc(r.raw.node, self.tag)), r.cells)

\* a to_resolved that wraps the handle it was given
to_resolved_unresolved(t, self, from) ==
  LET o == resolve(t, self, from)
  IN IF o.pc = "awaiting" \/ o.res.st = "Err"
       THEN o
       ELSE Completed(OkResolvedVc(self), o.cells)

\* Vc::to_resolved
to_resolved(t, self, from) ==
  LET o == resolve(t, self, from)
  IN IF o.pc = "awaiting" \/ o.res.st = "Err"
       THEN o
       ELSE Completed(OkResolvedVc(o.res.vc), o.cells)

\* Vc::resolve_strongly_consistent
resolve_strongly_consistent(t, self, from) ==
  LET r == RawVc_resolve_strongly_consistent(t, from)
  IN CASE r.raw.st = "Pending" -> Suspended(r.raw.node, cells[t])
       [] r.raw.st = "Err" -> Completed(ErrRes(r.raw.err), cells[t])
       [] OTHER -> Completed(OkVc(Vc(r.raw.node, self.tag)), r.cells)

\* format!("{}#{}: {}", value_ty.name, index, task_id)
FormatIdentifier(name, index, task_id) ==
  name \o "#" \o ToString(index) \o ": " \o ToString(task_id)

\* a debug_identifier that matches on the handle it was given
debug_identifier_unresolved(t, self, from) ==
  LET o == resolve(t, self, from)
  IN IF o.pc = "awaiting" \/ o.res.st = "Err"
       THEN o
       ELSE LET raw_vc == self.node
            IN IF raw_vc.kind = "TaskCell"
                 THEN Completed(OkText(FormatIdentifier(ValueTypeName(raw_vc.ty),
                                                        raw_vc.index, raw_vc.id)),
                                o.cells)
                 ELSE Completed(Unreachable, o.cells)

\* Vc::debug_identifier
debug_identifier(t, self, from) ==
  LET o == resolve(t, self, from)
  IN IF o.pc = "awaiting" \/ o.res.st = "Err"
       THEN o
       ELSE LET raw_vc == o.res.vc.node
            IN IF raw_vc.kind = "TaskCell"
                 THEN Completed(OkText(FormatIdentifier(ValueTypeName(raw_vc.ty),
                                                        raw_vc.index, raw_vc.id)),
                                o.cells)
                 ELSE Completed(Unreachable, o.cells)

\* `.await?`, then Ok(raw_vc.map(|raw_vc| Vc { node: raw_vc, .. }))
CastOutcome(t, raw, K) ==
  CASE raw.st = "Pending" -> Suspended(raw.node, cells[t])
    [] raw.st = "Err" -> Completed(ErrRes(raw.err), cells[t])
    [] raw.some -> Completed(OkVc(Vc(raw.node, K)), cells[t])
    [] OTHER -> Completed(OkNone, cells[t])

\* a sidecast that skips the registry's answer
try_resolve_sidecast_unchecked(t, self, from, K) ==
  LET raw == RawVc_resolve_trait(from, K)
  IN CASE raw.st = "Pending" -> Suspended(raw.node, cells[t])
       [] raw.st = "Err" -> Completed(ErrRes(raw.err), cells[t])
       [] OTHER -> Completed(OkVc(Vc(Follow(from), K)), cells[t])

\* Vc::try_resolve_sidecast::<K>
try_resolve_sidecast(t, self, from, K) ==
  CastOutcome(t, RawVc_resolve_trait(from, K), K)

\* a downcast that turns the failure of the await into an absent result
try_resolve_downcast_swallow(t, self, from, K) ==
  LET raw == RawVc_resolve_trait(from, K)
  IN CASE raw.st = "Pending" -> Suspended(raw.node, cells[t])
       [] raw.st = "Err" -> Completed(OkNone, cells[t])
       [] raw.some -> Completed(OkVc(Vc(raw.node, K)), cells[t])
       [] OTHER -> Completed(OkNone, cells[t])

\* Vc::try_resolve_downcast::<K>
try_resolve_downcast(t, self, from, K) ==
  CastOutcome(t, RawVc_resolve_trait(from, K), K)

\* Vc::try_resolve_downcast_type::<K>
try_resolve_downcast_type(t, self, from, K) ==
  CastOutcome(t, RawVc_resolve_value(from, K), K)

\* IntoFuture for Vc<T>: self.node.into_read().into()
into_future(t, self, from) ==
  LET raw == RawVc_into_read(from)
  IN CASE raw.st = "Pending" -> Suspended(raw.node, cells[t])
       [] raw.st = "Err" -> Completed(ErrRes(raw.err), cells[t])
       [] OTHER -> Completed(OkVal(raw.val), cells[t])

\* ------------------------------------------------- the operations
\* the handles a task body can name: the outputs of the functions it may
\* call, the cells that exist, its own local cells, and its last result
Handles(t) ==
  {Vc(TaskOutput(x), RetTag(x)) : x \in Functions \ {t}}
  \cup {Vc(c, c.ty) : c \in ExistingCells}
  \cup {Vc(LocalCell(t, i), locals[t][i].ty) : i \in 1..Len(locals[t])}
  \cup (IF op[t].pc = "done" /\ op[t].res.st = "Ok" /\ op[t].res.vc # NoVc
          THEN {op[t].res.vc} ELSE {})

Poll(t, kind, self, k, from) ==
  CASE kind = "resolve" -> resolve(t, self, from)
    [] kind = "to_resolved" -> to_resolved(t, self, from)
    [] kind = "resolve_strongly_consistent" -> resolve_strongly_consistent(t, self, from)
    [] kind = "debug_identifier" -> debug_identifier(t, self, from)
    [] kind = "try_resolve_sidecast" -> try_resolve_sidecast(t, self, from, k)
    [] kind = "try_resolve_downcast" -> try_resolve_downcast(t, self, from, k)
    [] kind = "try_resolve_downcast_type" -> try_resolve_downcast_type(t, self, from, k)
    [] kind = "read" -> into_future(t, self, from)

Apply(t, kind, self, k, chained, o) ==
  /\ Cardinality(ExistingCells) + Len(o.cells) - Len(cells[t]) <= MaxCells
  /\ op' = [op EXCEPT ![t] =
       [NoOp EXCEPT !.kind = kind, !.pc = o.pc, !.arg = self, !.k = k,
                    !.cur = o.cur, !.chained = chained, !.res = o.res]]
  /\ cells' = [cells EXCEPT ![t] = o.cells]
  /\ UNCHANGED <<status, output, locals>>

\* the call resolves the result of the resolve just before it
Chained(t, h) ==
  /\ op[t].pc = "done" /\ op[t].kind = "resolve" /\ op[t].res.st = "Ok"
  /\ h = op[t].res.vc

ResolveBy(Ts) ==
  \E t \in Ts : \E h \in Handles(t) :
    CanIssue(t) /\ Apply(t, "resolve", h, "-", Chained(t, h), resolve(t, h, h.node))

ToResolvedBy(Ts) ==
  \E t \in Ts : \E h \in Handles(t) :
    CanIssue(t) /\ Apply(t, "to_resolved", h, "-", FALSE, to_resolved(t, h, h.node))

ResolveStronglyConsistentBy(Ts) ==
  \E t \in Ts : \E h \in Handles(t) :
    /\ CanIssue(t)
    /\ Apply(t, "resolve_strongly_consistent", h, "-", FALSE,
             resolve_strongly_consistent(t, h, h.node))

DebugIdentifierBy(Ts) ==
  \E t \in Ts : \E h \in Handles(t) :
    /\ CanIssue(t)
    /\ Apply(t, "debug_identifier", h, "-", FALSE, debug_identifier(t, h, h.node))

TryResolveSidecastBy(Ts) ==
  \E t \in Ts : \E h \in Handles(t) : \E K \in TraitTypes :
    /\ CanIssue(t) /\ h.tag \in TraitTypes
    /\ Apply(t, "try_resolve_sidecast", h, K, FALSE, try_resolve_sidecast(t, h, h.node, K))

TryResolveDowncastBy(Ts) ==
  \E t \in Ts : \E h \in Handles(t) : \E K \in TraitTypes :
    /\ CanIssue(t) /\ h.tag \in TraitTypes /\ UpcastOk(K, h.tag)
    /\ Apply(t, "try_resolve_downcast", h, K, FALSE, try_resolve_downcast(t, h, h.node, K))

TryResolveDowncastTypeBy(Ts) ==
  \E t \in Ts : \E h \in Handles(t) : \E K \in ValueTypes :
    /\ CanIssue(t) /\ h.tag \in TraitTypes /\ UpcastOk(K, h.tag)
    /\ Apply(t, "try_resolve_downcast_type", h, K, FALSE,
             try_resolve_downcast_type(t, h, h.node, K))

ReadBy(Ts) ==
  \E t \in Ts : \E h \in Handles(t) :
    /\ CanIssue(t) /\ h.tag \in ValueTypes
    /\ Apply(t, "read", h, "-", FALSE, into_future(t, h, h.node))

\* the awaited task has finished or failed: the operation is polled again
Resume ==
  \E t \in Tasks :
    /\ status[t] = "running" /\ op[t].pc = "awaiting" /\ ~Pending(op[t].cur)
    /\ Apply(t, op[t].kind, op[t].arg, op[t].k, op[t].chained,
             Poll(t, op[t].kind, op[t].arg, op[t].k, op[t].cur))

UpcastBy(Ts) ==
  \E t \in Ts : \E h \in Handles(t) : \E K \in TraitTypes :
    /\ CanIssue(t) /\ UpcastOk(h.tag, K)
    /\ op' = [op EXCEPT ![t] =
         [NoOp EXCEPT !.kind = "upcast", !.pc = "done", !.arg = h, !.k = K,
                      !.res = OkVc(upcast(h, K))]]
    /\ UNCHANGED <<status, output, cells, locals>>

\* ------------------------------------------------ specifications
OneInner == {[data |-> 42, slack |-> 1, shrinks |-> 0]}
TwoInners == OneInner \cup {[data |-> 7, slack |-> 0, shrinks |-> 0]}

\* The root execution resolves the handles; the functions produce cells and
\* outputs, finish and fail.
Next ==
  \/ Start
  \/ CellPrivateOn(GlobalExecs, {"TA"}, OneInner)
  \/ LocalCellPrivateOn({Root}, {"TA"}, OneInner)
  \/ ResolveBy({Root})
  \/ ToResolvedBy({Root})
  \/ ResolveStronglyConsistentBy({Root})
  \/ DebugIdentifierBy({Root})
  \/ Resume
  \/ Finish
  \/ Fail

Spec == Init /\ [][Next]_vars

\* The root execution casts and upcasts the handles.
NextCast ==
  \/ Start
  \/ CellPrivateOn(GlobalExecs, ValueTypes, OneInner)
  \/ TryResolveSidecastBy({Root})
  \/ TryResolveDowncastBy({Root})
  \/ TryResolveDowncastTypeBy({Root})
  \/ UpcastBy({Root})
  \/ Resume
  \/ Finish
  \/ Fail

SpecCast == Init /\ [][NextCast]_vars

\* The root execution awaits every kind of operation on the outputs of
\* functions that finish or fail.
NextFail ==
  \/ Start
  \/ CellPrivateOn(GlobalExecs, {"TA"}, OneInner)
  \/ ResolveBy({Root})
  \/ ToResolvedBy({Root})
  \/ ResolveStronglyConsistentBy({Root})
  \/ DebugIdentifierBy({Root})
  \/ TryResolveSidecastBy({Root})
  \/ TryResolveDowncastBy({Root})
  \/ TryResolveDowncastTypeBy({Root})
  \/ ReadBy({Root})
  \/ Resume
  \/ Finish
  \/ Fail

SpecFail == Init /\ [][NextFail]_vars

\* Every execution resolves and reads copies of the handles of global cells.
NextCopies ==
  \/ Start
  \/ CellPrivateOn({Root}, {"TA"}, TwoInners)
  \/ ResolveBy(Functions)
  \/ ReadBy(Functions)
  \/ Resume
  \/ Finish
  \/ Fail

SpecCopies == Init /\ [][NextCopies]_vars

\* One execution, of any kind, creating cells through every entry point.
InitCreate ==
  /\ \E a \in Tasks : status = [t \in Tasks |-> IF t = a THEN "running" ELSE "idle"]
  /\ output = [t \in Tasks |-> NoNode]
  /\ cells = [t \in Tasks |-> <<>>]
  /\ locals = [t \in Tasks |-> <<>>]
  /\ op = [t \in Tasks |-> NoOp]

NextCreate ==
  \/ CellPrivateOn(Tasks, ValueTypes, Inners)
  \/ LocalCellPrivateOn(Tasks, ValueTypes, Inners)
  \/ CellOn(Tasks, ValueTypes, Inners)
  \/ LocalCellOn(Tasks, ValueTypes, Inners)

SpecCreate == InitCreate /\ [][NextCreate]_vars

\* ---------------------------------------------------- properties
CreationApis == {"cell", "cell_private", "local_cell", "local_cell_private"}

CreatedBy(t) == op[t].pc = "done" /\ op[t].kind \in CreationApis

\* the creation of task t took the local path
LocalPath(t) ==
  \/ op[t].kind \in {"local_cell", "local_cell_private"}
  \/ /\ op[t].kind \in {"cell", "cell_private"}
     /\ try_get_function_meta(t).some
     /\ try_get_function_meta(t).local_cells

\* C6: every cell created through cell_private, cell, local_cell or
\* local_cell_private has had shrink_to_fit applied to its value exactly
\* once, on the global and on the local path, and what is stored is the
\* shrunk representation.
C6_ShrinkExactlyOnce ==
  \A t \in Tasks :
    CreatedBy(t) =>
      /\ op[t].shrinks = 1
      /\ CellAt(op[t].res.vc.node).val = [data |-> op[t].inner.data, slack |-> 0]

\* C7: a creation on the local path returns a LocalCell locator of the
\* current execution whose id is the one just issued, and invokes no
\* CellMode; a cell_private off the local path goes to the CellMode the
\* type declares and returns a cell of the task; and an id that is issued
\* differs from every id issued before in the execution.
C7_LocalState ==
  \A t \in Tasks :
    CreatedBy(t) =>
      IF LocalPath(t)
        THEN /\ op[t].res.vc.node = LocalCell(t, Len(locals[t]))
             /\ op[t].mode = "none"
             /\ op[t].res.vc.tag = op[t].k
        ELSE /\ op[t].mode = CellModeOf(op[t].k)
             /\ op[t].res.vc.node.kind = "TaskCell"
             /\ op[t].res.vc.node.id = t

C7_FreshStep ==
  \A t \in Tasks :
    /\ (Len(locals'[t]) > Len(locals[t])) =>
         /\ op'[t].res.vc.node \notin {LocalCell(t, i) : i \in 1..Len(locals[t])}
         /\ op'[t].res.vc.node.kind = "LocalCell"
         /\ cells' = cells
    /\ (CreatedBy(t)' /\ LocalPath(t)' /\ op'[t] # op[t]) =>
         Len(locals'[t]) = Len(locals[t]) + 1

C7_LocalCreation == [](C7_LocalState) /\ [][C7_FreshStep]_vars

\* a function with local_cells has made its second local cell through
\* cell_private
C7_Witness ==
  \E t \in Functions :
    /\ try_get_function_meta(t).local_cells
    /\ CreatedBy(t) /\ op[t].kind = "cell_private"
    /\ CellModeOf(op[t].k) = "shared"
    /\ op[t].res.vc.node = LocalCell(t, 2)

\* ------------------------------------------- resolution properties
\* the task whose fatal failure the locator runs into, if any
FailureOf(node) == IF Failed(Follow(node)) THEN {Follow(node).id} ELSE {}

Finished(t, kind) == op[t].pc = "done" /\ op[t].kind = kind

\* C1: a resolve of the result of a resolve, and every resolve of a handle
\* that is resolved, succeeds and returns the very locator it was given.
C1_ResolveIdempotent ==
  \A t \in Tasks :
    (Finished(t, "resolve") /\ (op[t].chained \/ is_resolved(op[t].arg))) =>
      /\ op[t].res.st = "Ok"
      /\ VcEq(op[t].res.vc, op[t].arg)
      /\ op[t].res.vc = op[t].arg

\* the root has resolved again what the resolve of a function's output gave
C1_Witness ==
  /\ Finished(Root, "resolve") /\ op[Root].chained /\ op[Root].res.st = "Ok"
  /\ \E x \in Functions :
       /\ status[x] = "done"
       /\ output[x].kind = "TaskOutput"
       /\ Follow(TaskOutput(x)) = op[Root].arg.node

\* the locator a handle settles on, once the tasks it waits for are done
SettlesOn(h) == Follow(h.node)

Unresolved(h) == ~is_resolved(h)

\* C2 as stated: any two unresolved handles that settle on the same
\* locator are unequal before they are resolved.
C2_UnequalBeforeResolution ==
  \A a \in Handles(Root), b \in Handles(Root) :
    (/\ Unresolved(a) /\ Unresolved(b)
     /\ SettlesOn(a).kind = "TaskCell"
     /\ SettlesOn(a) = SettlesOn(b)) => ~VcEq(a, b)

\* C2, amended: two unresolved handles with different locators that settle
\* on the same locator are unequal; the resolved one is unequal to the
\* unresolved other; and a resolve result is equal to a handle its argument
\* was unequal to only if both are resolved.
C2_LocatorIdentity ==
  /\ \A a \in Handles(Root), b \in Handles(Root) :
       (/\ Unresolved(a) /\ Unresolved(b) /\ a.node # b.node
        /\ SettlesOn(a).kind = "TaskCell"
        /\ SettlesOn(a) = SettlesOn(b)) =>
          /\ ~VcEq(a, b)
          /\ VcHash(a) # VcHash(b)
          /\ (Finished(Root, "resolve") /\ op[Root].arg = a) =>
               /\ op[Root].res.st = "Ok"
               /\ ~VcEq(op[Root].res.vc, b)
               /\ VcEq(op[Root].res.vc, Vc(SettlesOn(b), a.tag))
  /\ \A b \in Handles(Root) :
       (/\ Finished(Root, "resolve") /\ op[Root].res.st = "Ok"
        /\ ~VcEq(op[Root].arg, b) /\ VcEq(op[Root].res.vc, b)) =>
          /\ is_resolved(b) /\ is_resolved(op[Root].res.vc)
          /\ b.node = op[Root].res.vc.node

\* the root has resolved one of two different pending handles that settle
\* on the same cell
C2_Witness ==
  \E a \in Handles(Root), b \in Handles(Root) :
    /\ Unresolved(a) /\ Unresolved(b) /\ a.node # b.node
    /\ a.node.kind = "TaskOutput" /\ b.node.kind = "TaskOutput"
    /\ SettlesOn(a).kind = "TaskCell" /\ SettlesOn(a) = SettlesOn(b)
    /\ Finished(Root, "resolve") /\ op[Root].arg = a

\* C3: a ResolvedVc is the result of a to_resolved whose resolve succeeded
\* and holds a settled locator, the one the handle resolves to; a
\* to_resolved whose resolve fails returns the failure and no ResolvedVc.
C3_ResolvedVcSettled ==
  \A t \in Tasks :
    /\ (op[t].pc = "done" /\ op[t].res.resolved) =>
         /\ op[t].kind = "to_resolved" /\ op[t].res.st = "Ok"
         /\ op[t].res.vc.node.kind \in {"TaskCell", "LocalCell"}
         /\ op[t].res.vc.node.kind # "TaskOutput"
         /\ op[t].res.vc.tag = op[t].arg.tag
         /\ ~is_local(op[t].arg) => op[t].res.vc.node = Follow(op[t].arg.node)
    /\ (Finished(t, "to_resolved") /\ FailureOf(op[t].arg.node) # {}) =>
         /\ op[t].res.st = "Err" /\ ~op[t].res.resolved
         /\ op[t].res.vc = NoVc
    /\ (Finished(t, "to_resolved") /\ FailureOf(op[t].arg.node) = {}) =>
         op[t].res.resolved

\* the root holds the ResolvedVc of what was a pending output
C3_Witness ==
  /\ Finished(Root, "to_resolved") /\ op[Root].res.resolved
  /\ op[Root].arg.node.kind = "TaskOutput"

\* C10: debug_identifier ends with the identifier of the task cell the
\* handle resolves to, or with the failure of the resolve; never in the
\* unreachable branch, whatever the variant of the handle's locator.
C10_DebugIdentifierReachesCell ==
  \A t \in Tasks :
    Finished(t, "debug_identifier") =>
      /\ op[t].res.st # "Unreachable"
      /\ op[t].res.st \in {"Ok", "Err"}
      /\ (op[t].res.st = "Ok") =>
           /\ \E c \in ExistingCells :
                op[t].res.text =
                  FormatIdentifier(ValueTypeName(c.ty), c.index, c.id)
           /\ ~is_local(op[t].arg) =>
                LET c == Follow(op[t].arg.node)
                IN op[t].res.text =
                     FormatIdentifier(ValueTypeName(c.ty), c.index, c.id)
      /\ (op[t].res.st = "Err") =>
           /\ FailureOf(op[t].arg.node) # {}
           /\ \E x \in FailureOf(op[t].arg.node) : op[t].res.err = TaskFailure(x)
      /\ (FailureOf(op[t].arg.node) # {}) => op[t].res.st = "Err"

\* the root has the identifier of a handle that was a local cell
C10_Witness ==
  /\ Finished(Root, "debug_identifier") /\ is_local(op[Root].arg)
  /\ op[Root].res.text = "TypeA#0: 0"

\* ----------------------------------------------- failure properties
AsyncKinds ==
  {"resolve", "resolve_strongly_consistent", "to_resolved", "read",
   "try_resolve_sidecast", "try_resolve_downcast", "try_resolve_downcast_type"}

\* C4: when the task behind a handle's locator has failed fatally, every
\* resolve, resolve_strongly_consistent, to_resolved, read and dynamic cast
\* on the handle ends with that failure: no handle, no resolved handle, no
\* value and no absent result; and an operation fails only with the failure
\* of the task its handle runs into.
C4_FatalPropagation ==
  \A t \in Tasks :
    (op[t].pc = "done" /\ op[t].kind \in AsyncKinds \cup {"debug_identifier"}) =>
      /\ (FailureOf(op[t].arg.node) # {}) =>
           /\ op[t].res.st = "Err"
           /\ op[t].res.st # "None"
           /\ op[t].res.err.source \in FailureOf(op[t].arg.node)
           /\ op[t].res.err.wrap \in {"anyhow", "TaskError"}
           /\ op[t].res.vc = NoVc /\ op[t].res.val = NoVal
           /\ ~op[t].res.resolved
      /\ (op[t].res.st = "Err") => FailureOf(op[t].arg.node) # {}

\* the root's downcast of the output of a finished function that returned
\* the output of a failed one
C4_Witness ==
  \E x \in Functions, y \in Functions :
    /\ Finished(Root, "try_resolve_downcast")
    /\ op[Root].arg.node = TaskOutput(x)
    /\ status[x] = "done" /\ output[x] = TaskOutput(y) /\ status[y] = "failed"
    /\ op[Root].res = ErrRes(ResolveTypeTaskError(y))

\* -------------------------------------------------- cast properties
\* C5: a try_resolve_sidecast::<K> or try_resolve_downcast::<K> of a handle
\* whose cell holds a value of type T is present exactly when T implements
\* K, and then carries the locator of that cell typed K; when T does not
\* implement K it is absent and not a failure; it fails only when a task the
\* handle depends on failed.
C5_CastTotality ==
  \A t \in Tasks :
    (Finished(t, "try_resolve_sidecast") \/ Finished(t, "try_resolve_downcast")) =>
      IF FailureOf(op[t].arg.node) # {}
        THEN op[t].res.st = "Err"
        ELSE LET n == Follow(op[t].arg.node)
                 T == CellAt(n).ty
             IN /\ n.kind = "TaskCell"
                /\ (op[t].res.st = "Ok") <=> HasTrait(T, op[t].k)
                /\ HasTrait(T, op[t].k) => op[t].res = OkVc(Vc(n, op[t].k))
                /\ ~HasTrait(T, op[t].k) => op[t].res = OkNone
                /\ op[t].res.st # "Err"

\* the root's sidecast to a trait the value behind a function's output does
\* not implement, and one to a trait it implements
C5_Witness ==
  /\ Finished(Root, "try_resolve_sidecast")
  /\ op[Root].arg.node.kind = "TaskOutput"
  /\ op[Root].k = "L"
  /\ Follow(op[Root].arg.node).kind = "TaskCell"
  /\ Follow(op[Root].arg.node).ty = "TA"
  /\ op[Root].res = OkNone

\* C9: upcast cannot fail and returns the locator of the handle it is given
\* under the new type: the result is resolved exactly when the handle is and
\* resolves to what the handle resolves to; and the step changes no task,
\* output or cell and no other operation.
C9_UpcastState ==
  \A t \in Tasks :
    Finished(t, "upcast") =>
      /\ op[t].res = OkVc(Vc(op[t].arg.node, op[t].k))
      /\ VcEq(op[t].res.vc, op[t].arg)
      /\ VcHash(op[t].res.vc) = VcHash(op[t].arg)
      /\ is_resolved(op[t].res.vc) <=> is_resolved(op[t].arg)
      /\ is_local(op[t].res.vc) <=> is_local(op[t].arg)
      /\ RawVc_resolve(t, op[t].res.vc.node) = RawVc_resolve(t, op[t].arg.node)

C9_UpcastStep ==
  \A t \in Tasks :
    (Finished(t, "upcast")' /\ op'[t] # op[t]) =>
      /\ UNCHANGED <<status, output, cells, locals>>
      /\ \A u \in Tasks \ {t} : op'[u] = op[u]
      /\ op'[t].arg \in Handles(t)
      /\ op'[t].res.vc.node = op'[t].arg.node

C9_UpcastRelabels == [](C9_UpcastState) /\ [][C9_UpcastStep]_vars

\* the root has upcast the output of a finished function, which a resolve
\* would have replaced by the cell it returned
C9_Witness ==
  \E x \in Functions :
    /\ Finished(Root, "upcast")
    /\ op[Root].arg.node = TaskOutput(x) /\ status[x] = "done"
    /\ Follow(TaskOutput(x)).kind = "TaskCell"
    /\ op[Root].res.vc = Vc(TaskOutput(x), "K")

\* ------------------------------------------------- copies of a handle
\* C8: the resolves of copies of the handle of a cell created by
\* cell_private under the new-slot mode, issued by different executions in
\* any order, return handles equal to each other and to the copies; and a
\* read through the handle yields the value the cell was created with.
C8_CopiesResolveEqual ==
  /\ \A t \in Functions, u \in Functions :
       (/\ Finished(t, "resolve") /\ Finished(u, "resolve")
        /\ op[t].arg.node.kind = "TaskCell"
        /\ VcEq(op[t].arg, op[u].arg)) =>
          /\ op[t].res.st = "Ok" /\ op[u].res.st = "Ok"
          /\ VcEq(op[t].res.vc, op[u].res.vc)
          /\ VcEq(op[t].res.vc, op[t].arg)
  /\ \A t \in Functions :
       (/\ Finished(t, "read")
        /\ Finished(Root, "cell_private") /\ CellModeOf(op[Root].k) = "new"
        /\ VcEq(op[t].arg, op[Root].res.vc)) =>
          /\ op[t].res.st = "Ok"
          /\ op[t].res.val.data = op[Root].inner.data
          /\ op[t].res.val = target_to_repr(ShrinkToFit(op[Root].inner))

\* one function has resolved a copy and the other has read 7 through one
C8_Witness ==
  \E t \in Functions, u \in Functions :
    /\ t # u
    /\ Finished(t, "resolve") /\ Finished(u, "read")
    /\ Finished(Root, "cell_private") /\ Len(cells[Root]) = 2
    /\ cells[Root][1].val.data = 42
    /\ op[t].arg = op[Root].res.vc
    /\ VcEq(op[u].arg, op[t].res.vc)
    /\ op[u].res.val.data = 7
====
